---- MODULE Spec2Model ----
(***************************************************************************)
(* A model of the uk_politics package: the Location wildcard comparison,   *)
(* the memoized nickname resolver (names.official behind                   *)
(* functools.lru_cache), the nickname tables built by read_nicknames_file, *)
(* the ingestion of raw vote lines and the election queries.               *)
(*                                                                         *)
(* Python values are encoded as follows.                                   *)
(*   str            a sequence of one-character strings, <<"a","b">>       *)
(*   Optional[x]    <<>> for None, <<x>> for a value x                     *)
(*   dict           a sequence of <<key, value>> pairs in insertion order  *)
(*   list           a sequence                                             *)
(***************************************************************************)
EXTENDS Integers, Sequences, FiniteSets, TLC

VARIABLES
    PARTY_NICKNAMES,    \* data_tables.PARTY_NICKNAMES
    PARTY_SHORTNAMES,   \* data_tables.PARTY_SHORTNAMES
    PARTY_COLORS,       \* data_tables.PARTY_COLORS
    COUNTS,             \* elections.COUNTS
    importing,          \* the import of the package: its phase and the vote lines not yet read
    cache,              \* the lru_cache of names.official, least recently used first
    log,                \* the rename warnings logged so far
    last,               \* the last operation, its arguments and its outcome
    ncalls,             \* the operations called so far
    threads             \* the callers inside names.official at the same time

vars == <<PARTY_NICKNAMES, PARTY_SHORTNAMES, PARTY_COLORS, COUNTS, importing, cache, log, last, ncalls, threads>>

(***************************************************************************)
(* Python values                                                           *)
(***************************************************************************)

\* Python's None, as an Optional.
None == <<>>

\* A value that is not None, as an Optional.
Some(x) == <<x>>

\* The value held by an Optional that is not None.
Val(o) == o[1]

\* F applied to the value of e, with e evaluated once.
Apply(e, F(_)) == CHOOSE r \in {F(x) : x \in {e}} : TRUE

\* str.lower() on one character, over the letters the model uses.
LowerChar(c) ==
    CASE c = "A" -> "a"
      [] c = "B" -> "b"
      [] c = "C" -> "c"
      [] c = "G" -> "g"
      [] c = "L" -> "l"
      [] c = "P" -> "p"
      [] c = "R" -> "r"
      [] c = "S" -> "s"
      [] c = "T" -> "t"
      [] c = "W" -> "w"
      [] OTHER -> c

\* str.lower()
Lower(s) == [i \in 1..Len(s) |-> LowerChar(s[i])]

\* The characters str.strip() removes.
IsSpace(c) == c \in {" ", "\t", "\n"}

\* str.lstrip() and str.rstrip()
RECURSIVE LStrip(_)
LStrip(s) == IF Len(s) > 0 /\ IsSpace(s[1]) THEN LStrip(Tail(s)) ELSE s

RECURSIVE RStrip(_)
RStrip(s) == IF Len(s) > 0 /\ IsSpace(s[Len(s)]) THEN RStrip(SubSeq(s, 1, Len(s) - 1)) ELSE s

\* str.strip(): leading and trailing whitespace removed.
Strip(s) == Apply(LStrip(s), RStrip)

\* str.split("|")
RECURSIVE SplitPipe(_)
SplitPipe(s) ==
    IF \A i \in 1..Len(s) : s[i] # "|" THEN <<s>>
    ELSE LET i == CHOOSE k \in 1..Len(s) :
                      s[k] = "|" /\ \A j \in 1..(k - 1) : s[j] # "|"
         IN  <<SubSeq(s, 1, i - 1)>> \o SplitPipe(SubSeq(s, i + 1, Len(s)))

\* "|".join(parts)
RECURSIVE JoinPipe(_)
JoinPipe(parts) ==
    IF Len(parts) = 0 THEN <<>>
    ELSE IF Len(parts) = 1 THEN parts[1]
    ELSE parts[1] \o <<"|">> \o JoinPipe(Tail(parts))

\* The decimal digits, by value.
DigitChar(d) == <<"0", "1", "2", "3", "4", "5", "6", "7", "8", "9">>[d + 1]

\* str(n) for an int n >= 0.
RECURSIVE StrNat(_)
StrNat(n) == IF n < 10 THEN <<DigitChar(n)>> ELSE StrNat(n \div 10) \o <<DigitChar(n % 10)>>

\* str(n) for an int.
StrInt(n) == IF n < 0 THEN <<"-">> \o StrNat(0 - n) ELSE StrNat(n)

\* dict: key in d
DictHas(d, k) == \E i \in 1..Len(d) : d[i][1] = k

\* dict: d[k]
DictGet(d, k) == d[CHOOSE i \in 1..Len(d) : d[i][1] = k][2]

\* dict: d[k] = v (a key already present keeps its place)
DictSet(d, k, v) ==
    IF DictHas(d, k)
    THEN [i \in 1..Len(d) |-> IF d[i][1] = k THEN <<k, v>> ELSE d[i]]
    ELSE Append(d, <<k, v>>)

\* dict: list(d.keys())
DictKeys(d) == [i \in 1..Len(d) |-> d[i][1]]

(***************************************************************************)
(* location.py                                                             *)
(***************************************************************************)

\* Location(ons_id, constituency, county, region, country, electorate)
Location(o, c, y, r, n, e) ==
    [ons_id |-> o, constituency |-> c, county |-> y, region |-> r, country |-> n,
     electorate |-> e]

\* _wildcard_if_none on a string property
wildcard_if_none(p) == IF p = None THEN <<"*">> ELSE Val(p)

\* _wildcard_if_none on the electorate, an int
wildcard_if_none_int(p) == IF p = None THEN <<"*">> ELSE StrInt(Val(p))

\* Location._string_properties_list
string_properties_list(self) ==
    <<self.ons_id, self.constituency, self.county, self.region, self.country>>

\* Location.__repr__
Repr(self) ==
    JoinPipe([i \in 1..5 |-> wildcard_if_none(string_properties_list(self)[i])]
             \o <<wildcard_if_none_int(self.electorate)>>)

\* The comparison of one set property with one component: case-sensitive (a slip).
PropDiffers_CaseSensitive(prop, component) == prop # component

\* location.py line 71: prop.lower() != string_properties[index].lower()
PropDiffers(prop, component) == Lower(prop) # Lower(component)

\* The comparison with the electorate compared as a sixth property (a slip).
contains_loc_as_raw_string_WithElectorate(self, raw_string) ==
    LET string_properties == SplitPipe(raw_string)
        props == string_properties_list(self)
    IN  /\ ~ \E index \in 1..5 :
              /\ props[index] # None
              /\ PropDiffers(Val(props[index]), string_properties[index])
        /\ self.electorate # None =>
              StrInt(Val(self.electorate)) = string_properties[Len(string_properties)]

\* The comparison holding as soon as one set property agrees (a slip).
contains_loc_as_raw_string_AnyProperty(self, raw_string) ==
    LET string_properties == SplitPipe(raw_string)
        props == string_properties_list(self)
    IN  \E index \in 1..5 :
            /\ props[index] # None
            /\ ~PropDiffers(Val(props[index]), string_properties[index])

\* Location._contains_loc_as_raw_string
contains_loc_as_raw_string(self, raw_string) ==
    LET string_properties == SplitPipe(raw_string)
        props == string_properties_list(self)
    IN  ~ \E index \in 1..5 :
            /\ props[index] # None
            /\ PropDiffers(Val(props[index]), string_properties[index])

\* Location.__ge__
Ge(self, other) == contains_loc_as_raw_string(self, Repr(other))

\* Location.__le__
Le(self, other) == Ge(other, self)

\* The value of a decimal digit character.
DigitValue(c) == CHOOSE d \in 0..9 : DigitChar(d) = c

IsDigit(c) == c \in {"0", "1", "2", "3", "4", "5", "6", "7", "8", "9"}

RECURSIVE NatOfDigits(_)
NatOfDigits(s) ==
    IF Len(s) = 0 THEN 0
    ELSE 10 * NatOfDigits(SubSeq(s, 1, Len(s) - 1)) + DigitValue(s[Len(s)])

\* int(s) accepts surrounding whitespace, one sign and decimal digits.
IntBody(s) == IF Len(s) > 0 /\ s[1] \in {"-", "+"} THEN Tail(s) ELSE s
IsIntLiteral(s) ==
    LET b == IntBody(Strip(s))
    IN  Len(b) > 0 /\ \A i \in 1..Len(b) : IsDigit(b[i])

\* int(s), for a string int() accepts
ParseInt(s) ==
    LET t == Strip(s)
    IN  IF Len(t) > 0 /\ t[1] = "-" THEN 0 - NatOfDigits(IntBody(t))
        ELSE NatOfDigits(IntBody(t))

\* from_raw_string.wildcard_to_nonetype
wildcard_to_nonetype(string) == IF string = <<"*">> THEN None ELSE Some(string)

\* from_raw_string: the Location, or the exception raised (a string with fewer
\* than six components, or an electorate that is no integer)
from_raw_string(raw) ==
    LET split == [i \in 1..Len(SplitPipe(raw)) |-> wildcard_to_nonetype(SplitPipe(raw)[i])]
    IN  IF Len(split) < 6 THEN [kind |-> "IndexError", loc |-> None]
        ELSE IF split[6] # None /\ ~IsIntLiteral(Val(split[6]))
        THEN [kind |-> "ValueError", loc |-> None]
        ELSE [kind |-> "return",
              loc |-> Some(Location(split[1], split[2], split[3], split[4], split[5],
                                    IF split[6] = None THEN None
                                    ELSE Some(ParseInt(Val(split[6])))))]

(***************************************************************************)
(* data_tables.py                                                          *)
(***************************************************************************)

sGreenPartyKey == <<"g", "r", "e", "e", "n", " ", "p", "a", "r", "t", "y">>
sGreenParty == <<"G", "r", "e", "e", "n", " ", "P", "a", "r", "t", "y">>

\* read_nicknames_file, lines 84-85: the nickname cells of one row, as they are.
RECURSIVE AddNicknames(_, _, _)
AddNicknames(n2o, cells, official) ==
    IF Len(cells) = 0 THEN n2o
    ELSE AddNicknames(Apply(Lower(Head(cells)), LAMBDA nickname : DictSet(n2o, nickname, official)),
                      Tail(cells), official)

\* read_nicknames_file, lines 78-85: one row, (official, short, *nicknames).
AddRow(tables, row) ==
    LET official == Strip(row[1])
        short == Strip(row[2])
        n1 == DictSet(tables[1], Lower(short), official)
        n2 == DictSet(n1, Lower(official), official)
    IN  <<AddNicknames(n2, SubSeq(row, 3, Len(row)), official),
          DictSet(tables[2], Lower(official), short)>>

RECURSIVE AddRows(_, _)
AddRows(tables, rows) ==
    IF Len(rows) = 0 THEN tables ELSE AddRows(AddRow(tables, Head(rows)), Tail(rows))

\* read_nicknames_file: <<nicknames_to_official, official_to_short_name>>
read_nicknames_file(rows) ==
    LET t == AddRows(<<<<>>, <<>>>>, rows)
    IN  <<DictSet(t[1], sGreenPartyKey, sGreenParty), t[2]>>

(***************************************************************************)
(* names.py                                                                *)
(***************************************************************************)

\* functools.lru_cache without arguments: maxsize is 128.
maxsize == 128

\* The outcome of one evaluation: a returned Optional[str] or a raised exception,
\* with what the evaluation did on the way.
Return(v, events, ranFuzzy, lookedUp) ==
    [kind |-> "return", val |-> v, warn |-> events, fuzzy |-> ranFuzzy,
     consulted |-> lookedUp, hit |-> FALSE]

Raise(exc, lookedUp) ==
    [kind |-> exc, val |-> None, warn |-> <<>>, fuzzy |-> FALSE,
     consulted |-> lookedUp, hit |-> FALSE]

\* pd.isna(nickname), for None and for strings
isna(nickname) == nickname = None

\* names.py lines 70-73 with the flag ignored (a slip): None always passes through.
NullValue_AlwaysNone(exception_on_null_value) == Return(None, <<>>, FALSE, FALSE)

\* names.py lines 70-73: the null nickname
NullValue(exception_on_null_value) ==
    IF exception_on_null_value THEN Raise("PartyNicknameEmpty", FALSE)
    ELSE Return(None, <<>>, FALSE, FALSE)

\* The normalisation without the strip (a slip).
Normalise_NoStrip(nickname) == Lower(nickname)

\* names.py line 77: nickname.lower().strip()
Normalise(nickname) == Apply(Lower(nickname), Strip)

\* fuzzywuzzy's default processor on the query and on each choice: lower case,
\* surrounding whitespace removed.
full_process(s) == Apply(Lower(s), Strip)

\* The similarity of two processed strings, in 0..100: the positions at which
\* they agree, scaled by the longer length.
Similarity(q, c) ==
    IF Len(q) = 0 \/ Len(c) = 0 THEN 0
    ELSE IF Len(q) < Len(c)
    THEN (100 * Cardinality({i \in 1..Len(q) : q[i] = c[i]})) \div Len(c)
    ELSE (100 * Cardinality({i \in 1..Len(c) : q[i] = c[i]})) \div Len(q)

\* The scorer of fuzzywuzzy.process.extractOne, an external library: a similarity
\* in 0..100 of the processed query and the processed choice.
Score(processed_query, choice) ==
    Apply(full_process(choice), LAMBDA c : Similarity(processed_query, c))

\* The scores of the choices, in list order; the query is processed once.
Scores(query, choices) ==
    Apply(full_process(query),
          LAMBDA q : [i \in 1..Len(choices) |-> Score(q, choices[i])])

\* max(best_list, key=score): the first of the highest scores.
FirstMax(scores) ==
    CHOOSE i \in 1..Len(scores) :
        /\ \A j \in 1..Len(scores) : scores[j] <= scores[i]
        /\ \A j \in 1..(i - 1) : scores[j] < scores[i]

\* extractOne returning the first choice whatever its score (a slip).
extractOne_First(query, choices) == choices[1]

\* fuzzywuzzy.process.extractOne(query, choices)[0]: max() over the scored choices
\* in list order, so the first choice with the highest score.
extractOne(query, choices) ==
    Apply(Scores(query, choices), LAMBDA scores : choices[FirstMax(scores)])

\* names.py lines 90-91: _logger.warning("Renaming '%s' -> '%s'", ...)
RenameWarning(warn_on_fuzzy_match, nickname, proper_name) ==
    IF warn_on_fuzzy_match
    THEN <<[nickname |-> nickname, proper_name |-> proper_name]>>
    ELSE <<>>

\* names.py lines 89-92: the official name of the matched nickname, and the warning
Renamed(n, fuzzy_matched, warn_on_fuzzy_match) ==
    Apply(DictGet(PARTY_NICKNAMES, fuzzy_matched),
          LAMBDA proper_name :
              Return(Some(proper_name),
                     RenameWarning(warn_on_fuzzy_match, n, proper_name), TRUE, TRUE))

\* names.py lines 85-92: the closest nickname on file
FuzzyMatch(n, choices, warn_on_fuzzy_match) ==
    Apply(extractOne(n, choices),
          LAMBDA fuzzy_matched : Renamed(n, fuzzy_matched, warn_on_fuzzy_match))

\* names.py lines 78-94, for the normalised nickname n
Resolve(n, allow_fuzzy_match, warn_on_fuzzy_match) ==
    IF Len(n) = 0 THEN Raise("PartyNicknameEmpty", FALSE)
    ELSE IF DictHas(PARTY_NICKNAMES, n)
    THEN Return(Some(DictGet(PARTY_NICKNAMES, n)), <<>>, FALSE, TRUE)
    ELSE IF allow_fuzzy_match
    THEN Apply(DictKeys(PARTY_NICKNAMES),
               LAMBDA choices : FuzzyMatch(n, choices, warn_on_fuzzy_match))
    ELSE Raise("PartyNameNotFound", TRUE)

\* names.official, the decorated function's body (lines 70-94)
official_body(nickname, allow_fuzzy_match, warn_on_fuzzy_match, exception_on_null_value) ==
    IF isna(nickname) THEN NullValue(exception_on_null_value)
    ELSE Apply(Normalise(Val(nickname)),
               LAMBDA n : Resolve(n, allow_fuzzy_match, warn_on_fuzzy_match))

\* A call of names.official as written at the call site: the flags given by
\* position, then the flags given by keyword, in the order written.
Call(positional, keywords) == [pos |-> positional, kw |-> keywords]

\* The value a call binds to a parameter: by position, by keyword, or its default.
Bound(call, index, name, default) ==
    IF index <= Len(call.pos) THEN call.pos[index]
    ELSE IF \E i \in 1..Len(call.kw) : call.kw[i][1] = name
    THEN call.kw[CHOOSE i \in 1..Len(call.kw) : call.kw[i][1] = name][2]
    ELSE default

\* The argument tuple (allow_fuzzy_match, warn_on_fuzzy_match,
\* exception_on_null_value) of a call, defaults filled in (line 39-42).
Args(call) ==
    [allow_fuzzy_match |-> Bound(call, 1, "allow_fuzzy_match", TRUE),
     warn_on_fuzzy_match |-> Bound(call, 2, "warn_on_fuzzy_match", TRUE),
     exception_on_null_value |-> Bound(call, 3, "exception_on_null_value", FALSE)]

\* A cache key made of the nickname alone (a slip).
make_key_NicknameOnly(nickname, call) == <<nickname, <<>>, <<>>>>

\* A cache key that leaves the keyword arguments out (a slip).
make_key_NoKeywords(nickname, call) == <<nickname, call.pos, <<>>>>

\* functools._make_key: the positional arguments, then the keyword arguments as
\* written; defaults are not filled in.
make_key(nickname, call) == <<nickname, call.pos, call.kw>>

\* The cache entry of a key, when there is one.
CacheHas(c, key) == \E i \in 1..Len(c) : c[i][1] = key
CacheGet(c, key) == c[CHOOSE i \in 1..Len(c) : c[i][1] = key][2]

\* A hit makes the entry the most recently used.
CacheTouch(c, key) ==
    LET i == CHOOSE k \in 1..Len(c) : c[k][1] = key
    IN  SubSeq(c, 1, i - 1) \o SubSeq(c, i + 1, Len(c)) \o <<c[i]>>

\* A new entry; the least recently used one is dropped when the cache is full.
CacheInsert(c, key, value) ==
    IF CacheHas(c, key) THEN c
    ELSE Append(IF Len(c) >= maxsize THEN Tail(c) ELSE c, <<key, value>>)

\* The lru_cache wrapper around the body: the outcome of official(nickname, ...)
\* against cache c.
official_outcome(c, nickname, call) ==
    LET key == make_key(nickname, call)
    IN  IF CacheHas(c, key)
        THEN [kind |-> "return", val |-> CacheGet(c, key), warn |-> <<>>,
              fuzzy |-> FALSE, consulted |-> FALSE, hit |-> TRUE]
        ELSE official_body(nickname, Args(call).allow_fuzzy_match,
                           Args(call).warn_on_fuzzy_match,
                           Args(call).exception_on_null_value)

\* The cache after a call with outcome out: a hit is touched, a result is stored,
\* an exception is not.
official_cache(c, nickname, call, out) ==
    IF out.hit THEN CacheTouch(c, make_key(nickname, call))
    ELSE IF out.kind = "return" THEN CacheInsert(c, make_key(nickname, call), out.val)
    ELSE c

\* The warnings of a call, each with the argument tuple of the call that emitted it.
Emitted(out, nickname, call) ==
    [i \in 1..Len(out.warn) |->
        [nickname |-> out.warn[i].nickname, proper_name |-> out.warn[i].proper_name,
         arg |-> nickname, args |-> Args(call)]]

\* names.short
ShortOf(official_name) ==
    IF DictHas(PARTY_SHORTNAMES, official_name)
    THEN [kind |-> "return", val |-> Some(DictGet(PARTY_SHORTNAMES, official_name))]
    ELSE [kind |-> "PartyNameNotFound", val |-> None]

\* names.short looking its argument up as given, without lower-casing it.
short_AsGiven(official_name) ==
    IF official_name = None THEN [kind |-> "return", val |-> None]
    ELSE ShortOf(Val(official_name))

short(official_name) ==
    IF official_name = None THEN [kind |-> "return", val |-> None]
    ELSE Apply(Lower(Val(official_name)), ShortOf)

(***************************************************************************)
(* data_tables.read_csv_to_dict and colors.py                              *)
(***************************************************************************)

\* read_csv_to_dict, the dict comprehension {rows[0]: rows[1] for rows in
\* csv_reader}: a later row of a key replaces the value of an earlier one.
RECURSIVE read_csv_to_dict_from(_, _)
read_csv_to_dict_from(mapping, rows) ==
    IF Len(rows) = 0 THEN mapping
    ELSE read_csv_to_dict_from(DictSet(mapping, Head(rows)[1], Head(rows)[2]), Tail(rows))

read_csv_to_dict(rows) == read_csv_to_dict_from(<<>>, rows)

sHexGreen == <<"#", "1">>
sHexLab == <<"#", "2">>
sHexLower == <<"#", "3">>
sHexOther == <<"#", "4">>

\* The colour file behind the runs that look no colour up.
ColorData == read_csv_to_dict(<<<<sGreenParty, sHexGreen>>, <<<<"L", "a", "b">>, sHexLab>>>>)

\* colors.py lines 40-44, a warning for every name on file.
GreenWarning_Always(party_name) == <<"UKPoliticsWarning">>

\* colors.py lines 40-44: the warnings of a lookup of a name on file.
GreenWarning(party_name) ==
    IF party_name = sGreenParty THEN <<"UKPoliticsWarning">> ELSE <<>>

\* colors.py lines 39-47, the lookup of a name that is not None.
ColorOf(party_name) ==
    IF DictHas(PARTY_COLORS, party_name)
    THEN [kind |-> "return", val |-> Some(DictGet(PARTY_COLORS, party_name)),
          warnings |-> GreenWarning(party_name)]
    ELSE [kind |-> "NoColorForThisParty", val |-> None, warnings |-> <<>>]

\* colors.by_official_party_name
by_official_party_name(party_name) ==
    IF party_name = None THEN [kind |-> "return", val |-> None, warnings |-> <<>>]
    ELSE ColorOf(Val(party_name))

(***************************************************************************)
(* elections.py: ingestion                                                 *)
(***************************************************************************)

sScotland == <<"S", "c", "o", "t", "l", "a", "n", "d">>
sWales == <<"W", "a", "l", "e", "s">>
sNorthernIreland ==
    <<"N", "o", "r", "t", "h", "e", "r", "n", " ", "I", "r", "e", "l", "a", "n", "d">>
sPCSNP == <<"P", "C", "/", "S", "N", "P">>
sSNP == <<"S", "N", "P">>
sPC == <<"P", "C">>
sGreen == <<"G", "r", "e", "e", "n">>
sScottishGreenParty ==
    <<"S", "c", "o", "t", "t", "i", "s", "h", " ", "G", "r", "e", "e", "n", " ",
      "P", "a", "r", "t", "y">>
sGreenPartyNorthernIreland ==
    <<"G", "r", "e", "e", "n", " ", "P", "a", "r", "t", "y", " ",
      "N", "o", "r", "t", "h", "e", "r", "n", " ", "I", "r", "e", "l", "a", "n", "d">>
sGreenPartyOfEnglandAndWales ==
    <<"G", "r", "e", "e", "n", " ", "P", "a", "r", "t", "y", " ", "o", "f", " ",
      "E", "n", "g", "l", "a", "n", "d", " ", "a", "n", "d", " ", "W", "a", "l", "e", "s">>

\* A raw vote line: the |-separated location, the date, the party as recorded
\* (None for a missing cell) and the vote count.
Line(loc, date, party, votes) == <<loc, date, party, votes>>

\* The relabelling with every "PC/SNP" taken for the SNP (a slip).
Relabel_AlwaysSNP(party_contemporary_styling, country) ==
    IF party_contemporary_styling = Some(sPCSNP) THEN Some(sSNP)
    ELSE IF party_contemporary_styling = Some(sGreen)
    THEN IF country = Some(sScotland) THEN Some(sScottishGreenParty)
         ELSE IF country = Some(sNorthernIreland) THEN Some(sGreenPartyNorthernIreland)
         ELSE Some(sGreenPartyOfEnglandAndWales)
    ELSE party_contemporary_styling

\* _vote_line_to_object, lines 46-61: the label handed to names.official
Relabel(party_contemporary_styling, country) ==
    IF party_contemporary_styling = Some(sPCSNP)
    THEN IF country = Some(sScotland) THEN Some(sSNP)
         ELSE IF country = Some(sWales) THEN Some(sPC)
         ELSE party_contemporary_styling
    ELSE IF party_contemporary_styling = Some(sGreen)
    THEN IF country = Some(sScotland) THEN Some(sScottishGreenParty)
         ELSE IF country = Some(sNorthernIreland) THEN Some(sGreenPartyNorthernIreland)
         ELSE Some(sGreenPartyOfEnglandAndWales)
    ELSE party_contemporary_styling

\* The call of names.official that ingestion makes (line 63-64).
IngestCall == Call(<<>>, <<<<"warn_on_fuzzy_match", TRUE>>>>)

\* _vote_line_to_object, lines 66-68: a name of None raises DataLineUnreadable,
\* once "\t".join(line) has built its message; str.join raises TypeError on an
\* item that is not a str, as a label that pd.isna accepts is.
NoOfficialName(party_contemporary_styling) ==
    IF party_contemporary_styling = None THEN "TypeError" ELSE "DataLineUnreadable"

\* _vote_line_to_object, lines 66-75, once names.official has answered with out;
\* label is what was handed to names.official.
VoteTotalOf(c, line, loc, party_contemporary_styling, out) ==
    [kind |-> IF out.kind # "return" THEN out.kind
              ELSE IF out.val = None THEN NoOfficialName(party_contemporary_styling)
              ELSE "return",
     vote |-> IF out.kind = "return" /\ out.val # None
              THEN Some([location |-> loc,
                         date |-> line[2],
                         party |-> Val(out.val),
                         party_contemporary_styling |-> Val(party_contemporary_styling),
                         votes |-> line[4]])
              ELSE None,
     label |-> Some(party_contemporary_styling),
     cache |-> official_cache(c, party_contemporary_styling, IngestCall, out),
     warn |-> Emitted(out, party_contemporary_styling, IngestCall)]

\* _vote_line_to_object, lines 46-64, for a location that was read
VoteAt(c, line, loc, party_contemporary_styling) ==
    CHOOSE r \in {VoteTotalOf(c, line, loc, party_contemporary_styling, out) :
                     out \in {official_outcome(c, party_contemporary_styling, IngestCall)}} :
        TRUE

\* _vote_line_to_object, after from_raw_string
VoteFrom(c, line, count_location) ==
    IF count_location.kind # "return"
    THEN [kind |-> count_location.kind, vote |-> None, label |-> None, cache |-> c,
          warn |-> <<>>]
    ELSE VoteAt(c, line, Val(count_location.loc),
                Relabel(line[3], Val(count_location.loc).country))

\* _vote_line_to_object against cache c: the VoteTotal or the exception raised,
\* with the cache and the warnings the call of names.official leaves.
vote_line_to_object(c, line) == VoteFrom(c, line, from_raw_string(line[1]))

(***************************************************************************)
(* Strings of the model                                                    *)
(***************************************************************************)

sa == <<"a">>
sA == <<"A">>
sb == <<"b">>
sStar == <<"*">>
sXpipeA == <<"x", "|", "a">>

\* The Locations the comparison is exercised on: every field set and unset, two
\* values differing only in case, the literal "*", and a value holding the delimiter.
LocationInputs ==
    {Location(o, c, y, r, n, e) :
        o \in {None, Some(sa), Some(sXpipeA)},
        c \in {None, Some(sa), Some(sA), Some(sStar)},
        y \in {None, Some(sb)},
        r \in {None, Some(sb)},
        n \in {None, Some(sA)},
        e \in {None, Some(0), Some(7)}}

(***************************************************************************)
(* The Location comparison                                                 *)
(***************************************************************************)

Idle == [op |-> "idle"]

\* The two Locations to compare are drawn here; each run compares them once.
InitLoc ==
    /\ PARTY_NICKNAMES = <<>>
    /\ PARTY_SHORTNAMES = <<>>
    /\ PARTY_COLORS = ColorData
    /\ COUNTS = <<>>
    /\ importing = [phase |-> "ready", lines |-> <<>>]
    /\ cache = <<>>
    /\ log = <<>>
    /\ \E A \in LocationInputs, B \in LocationInputs :
            last = [op |-> "idle", a |-> A, b |-> B, res |-> FALSE]
    /\ ncalls = 0
    /\ threads = <<>>

\* A >= B
CompareGe ==
    /\ last.op = "idle"
    /\ last' = [last EXCEPT !.op = "ge", !.res = Ge(last.a, last.b)]
    /\ UNCHANGED <<PARTY_NICKNAMES, PARTY_SHORTNAMES, PARTY_COLORS, COUNTS, importing, cache, log, ncalls, threads>>

\* A <= B
CompareLe ==
    /\ last.op = "idle"
    /\ last' = [last EXCEPT !.op = "le", !.res = Le(last.a, last.b)]
    /\ UNCHANGED <<PARTY_NICKNAMES, PARTY_SHORTNAMES, PARTY_COLORS, COUNTS, importing, cache, log, ncalls, threads>>

\* from_raw_string(repr(A))
RoundTrip ==
    /\ last.op = "idle"
    /\ last' = [last EXCEPT !.op = "roundtrip", !.res = from_raw_string(Repr(last.a))]
    /\ UNCHANGED <<PARTY_NICKNAMES, PARTY_SHORTNAMES, PARTY_COLORS, COUNTS, importing, cache, log, ncalls, threads>>

NextLoc == CompareGe \/ CompareLe \/ RoundTrip

SpecLoc == InitLoc /\ [][NextLoc]_vars

\* The five string fields and all six fields of a Location.
StringFields == {"ons_id", "constituency", "county", "region", "country"}
AllFields == StringFields \cup {"electorate"}

\* No string field of the Location holds the delimiter.
NoPipe(loc) ==
    \A f \in StringFields :
        loc[f] # None => \A i \in 1..Len(Val(loc[f])) : Val(loc[f])[i] # "|"

\* C1 as stated: A >= B iff every one of the six fields set in A is set in B to
\* an equal value (strings compared case-insensitively).
C1_Original ==
    last.op = "ge" =>
        (last.res <=>
            \A f \in AllFields :
                last.a[f] # None =>
                    /\ last.b[f] # None
                    /\ IF f = "electorate" THEN Val(last.a[f]) = Val(last.b[f])
                       ELSE Lower(Val(last.a[f])) = Lower(Val(last.b[f])))

\* C1 amended: for B with no "|" in its string fields, A >= B iff every one of
\* the five string fields set in A equals, case-insensitively, B's field as the
\* canonical string renders it (an unset field of B reads "*", so it matches
\* exactly a field of A that is the literal "*"); the electorate is not compared.
C1_GeFieldwise ==
    (last.op = "ge" /\ NoPipe(last.b)) =>
        (last.res <=>
            \A f \in StringFields :
                last.a[f] # None =>
                    IF last.b[f] = None THEN Val(last.a[f]) = sStar
                    ELSE Lower(Val(last.a[f])) = Lower(Val(last.b[f])))

\* C1 witness: a filter with a set field matched a record that differs from it in
\* letter case and in electorate.
C1_Witness ==
    /\ last.op = "ge"
    /\ last.res
    /\ NoPipe(last.b)
    /\ last.a.constituency = Some(sa)
    /\ last.b.constituency = Some(sA)
    /\ last.a.electorate = Some(0)
    /\ last.b.electorate = Some(7)

(***************************************************************************)
(* The name resolver, called in sequence                                   *)
(***************************************************************************)

\* The most calls one run makes.
MaxCalls == 2

sLab == <<"L", "a", "b">>
sL == <<"L">>
sRed == <<"r", "e", "d">>
sCon == <<"C", "o", "n">>
sC == <<"C">>
sTory == <<"t", "o", "r", "y">>
sToryCap == <<"T", "o", "r", "y">>
sSpaceTory == <<" ", "t", "o", "r", "y">>
sTori == <<"t", "o", "r", "i">>
sEmpty == <<>>
sBlank == <<" ">>

\* The nickname files: a clean one, and one with an empty nickname cell and a
\* nickname cell that starts with a space.
CleanRows == <<<<sLab, sL, sRed>>, <<sCon, sC, sTory>>>>
TableInputs ==
    {CleanRows, <<<<sLab, sL, sRed, sEmpty>>, <<sCon, sC, sSpaceTory>>>>}

\* A record's location string, "*|A|b|b|A|7".
sRecordLoc == <<"*", "|", "A", "|", "b", "|", "b", "|", "A", "|", "7">>

\* The vote file behind the resolver runs: one line whose label is a nickname on
\* file in the clean table and is matched by similarity in the others.
ResolverData == <<Line(sRecordLoc, 1, Some(sTory), 10)>>

\* The nicknames asked for: the null value, the empty and the blank string, a
\* nickname on file up to case, one on file only with its leading space, one
\* not on file, and the merged Green Party, which read_nicknames_file files by
\* hand.
NicknameInputs ==
    {None, Some(sEmpty), Some(sBlank), Some(sToryCap), Some(sSpaceTory), Some(sTori),
     Some(sGreenPartyKey)}

\* The direct calls of names.official: the bare call, official(nickname), and the
\* calls with all three flags given by position.  find_party and the ingestion
\* add their own call shapes, with one flag given by keyword.
CallInputs ==
    {Call(<<>>, <<>>)}
    \cup {Call(<<f, w, e>>, <<>>) : f \in BOOLEAN, w \in BOOLEAN, e \in BOOLEAN}

\* The package as its import begins: the tables are read (data_tables is imported
\* first), no vote line is read yet and the cache is empty.
Init ==
    /\ \E rows \in TableInputs :
          /\ PARTY_NICKNAMES = read_nicknames_file(rows)[1]
          /\ PARTY_SHORTNAMES = read_nicknames_file(rows)[2]
          /\ PARTY_COLORS = ColorData
    /\ COUNTS = <<>>
    /\ importing = [phase |-> "loading", lines |-> ResolverData]
    /\ cache = <<>>
    /\ log = <<>>
    /\ last = Idle
    /\ ncalls = 0
    /\ threads = <<>>

\* elections.py lines 80-81: the next vote line becomes a VoteTotal, through
\* names.official and its cache; an exception ends the import, and the line after
\* the last one ends it well.
IngestLine(line, r) ==
    /\ COUNTS' = IF r.kind = "return" THEN Append(COUNTS, Val(r.vote)) ELSE COUNTS
    /\ cache' = r.cache
    /\ log' = log \o r.warn
    /\ importing' =
          [phase |-> IF r.kind # "return" THEN "failed"
                     ELSE IF Len(importing.lines) = 1 THEN "ready"
                     ELSE "loading",
           lines |-> Tail(importing.lines)]
    /\ last' = [op |-> "ingest", line |-> line, kind |-> r.kind, vote |-> r.vote,
                label |-> r.label]

Ingest ==
    /\ importing.phase = "loading"
    /\ Len(importing.lines) > 0
    /\ \E r \in {vote_line_to_object(cache, Head(importing.lines))} :
          IngestLine(Head(importing.lines), r)
    /\ UNCHANGED <<PARTY_NICKNAMES, PARTY_SHORTNAMES, PARTY_COLORS, ncalls, threads>>

\* What a call of names.official with outcome out leaves behind.
OfficialCalled(nickname, call, out) ==
    /\ cache' = official_cache(cache, nickname, call, out)
    /\ log' = log \o Emitted(out, nickname, call)
    /\ last' = [op |-> "official", nickname |-> nickname, call |-> call,
                args |-> Args(call), out |-> out, kind |-> out.kind, val |-> out.val]

\* names.official(nickname, ...), a whole call through the cache
CallOfficial ==
    /\ importing.phase = "ready"
    /\ ncalls < MaxCalls
    /\ \E nickname \in NicknameInputs, call \in CallInputs :
          \E out \in {official_outcome(cache, nickname, call)} :
              OfficialCalled(nickname, call, out)
    /\ ncalls' = ncalls + 1
    /\ UNCHANGED <<PARTY_NICKNAMES, PARTY_SHORTNAMES, PARTY_COLORS, COUNTS, importing, threads>>

\* find_party, lines 86-91, once names.official has answered with out
FindPartyResult(return_short_name, out) ==
    IF out.kind = "return" /\ return_short_name THEN short(out.val)
    ELSE [kind |-> out.kind, val |-> out.val]

\* What a call of find_party leaves behind.
FindPartyCalled(nickname, return_short_name, call, out, res) ==
    /\ cache' = official_cache(cache, nickname, call, out)
    /\ log' = log \o Emitted(out, nickname, call)
    /\ last' = [op |-> "find_party", nickname |-> nickname, call |-> call,
                args |-> Args(call), out |-> out,
                return_short_name |-> return_short_name,
                kind |-> res.kind, val |-> res.val]

\* The call of names.official that find_party makes (line 86).
FindPartyCall(allow_fuzzy) == Call(<<>>, <<<<"allow_fuzzy_match", allow_fuzzy>>>>)

\* uk_politics.find_party(nickname, return_short_name, allow_fuzzy)
CallFindParty ==
    /\ importing.phase = "ready"
    /\ ncalls < MaxCalls
    /\ \E nickname \in NicknameInputs, return_short_name \in BOOLEAN, allow_fuzzy \in BOOLEAN :
          \E out \in {official_outcome(cache, nickname, FindPartyCall(allow_fuzzy))} :
              FindPartyCalled(nickname, return_short_name, FindPartyCall(allow_fuzzy),
                              out, FindPartyResult(return_short_name, out))
    /\ ncalls' = ncalls + 1
    /\ UNCHANGED <<PARTY_NICKNAMES, PARTY_SHORTNAMES, PARTY_COLORS, COUNTS, importing, threads>>

sLAB == <<"L", "A", "B">>
sSpaceLab == <<" ", "L", "a", "b">>

\* The names asked of names.short: None, an official name as filed and in
\* capitals, one with a leading space, a nickname, and the empty string.
ShortInputs == {None, Some(sLab), Some(sLAB), Some(sSpaceLab), Some(sTory), Some(sEmpty)}

\* names.short(official_name), a whole call
CallShort ==
    /\ importing.phase = "ready"
    /\ ncalls < MaxCalls
    /\ \E official_name \in ShortInputs :
          \E res \in {short(official_name)} :
              last' = [op |-> "short", official_name |-> official_name,
                       kind |-> res.kind, val |-> res.val]
    /\ ncalls' = ncalls + 1
    /\ UNCHANGED <<PARTY_NICKNAMES, PARTY_SHORTNAMES, PARTY_COLORS, COUNTS, importing, cache, log, threads>>

Next == Ingest \/ CallOfficial \/ CallFindParty \/ CallShort

Spec == Init /\ [][Next]_vars

(***************************************************************************)
(* The name resolver: properties                                           *)
(***************************************************************************)

\* The last step was a call of names.official, directly or through find_party.
Resolved == last.op \in {"official", "find_party"}

\* The last call's nickname is a string; Norm is its normalised form.
IsString == Resolved /\ last.nickname # None
Norm == Normalise(Val(last.nickname))

\* The last call emitted a rename warning.
Warned == Len(last.out.warn) > 0

\* The warnings logged for one argument tuple (nickname, allow_fuzzy_match,
\* warn_on_fuzzy_match, exception_on_null_value).
WarningsFor(arg, args) == {i \in 1..Len(log) : log[i].arg = arg /\ log[i].args = args}

\* C2 as stated: in any sequence of calls the rename warning is emitted at most
\* once for each argument tuple (nickname, allowFuzzy, warnOnFuzzy, errorOnEmpty).
C2_WarnOncePerTuple ==
    \A i \in 1..Len(log) : Cardinality(WarningsFor(log[i].arg, log[i].args)) <= 1

\* C3 as stated: a nickname whose normalised form is not a key of the table,
\* resolved with allow_fuzzy_match false, fails with PartyNameNotFound, no warning.
C3_Original ==
    (IsString /\ ~last.args.allow_fuzzy_match /\ ~DictHas(PARTY_NICKNAMES, Norm)) =>
        (last.out.kind = "PartyNameNotFound" /\ ~Warned)

\* C3 amended: a non-blank nickname whose normalised form is not a key of the
\* table, resolved with allow_fuzzy_match false, fails with PartyNameNotFound and
\* emits no warning, after any earlier calls.
C3_NotFoundWithoutFuzzy ==
    (IsString /\ ~last.args.allow_fuzzy_match /\ Len(Norm) > 0
       /\ ~DictHas(PARTY_NICKNAMES, Norm)) =>
        (last.out.kind = "PartyNameNotFound" /\ ~Warned /\ ~last.out.fuzzy)

\* C3 witness: the nickname was resolved by similarity and cached, and the same
\* nickname is now refused with allow_fuzzy_match false.
C3_Witness ==
    /\ IsString
    /\ last.nickname = Some(sTori)
    /\ ~last.args.allow_fuzzy_match
    /\ last.out.kind = "PartyNameNotFound"
    /\ \E i \in 1..Len(cache) : cache[i][1][1] = Some(sTori)

\* C4 as stated: a non-empty nickname that is, up to letter case, a key of the
\* table resolves to the official name of that key, for every setting of the
\* flags, without the similarity search and without a warning.
C4_VerbatimKeyResolves ==
    (IsString /\ Len(Val(last.nickname)) > 0
       /\ DictHas(PARTY_NICKNAMES, Lower(Val(last.nickname)))) =>
        /\ last.out.kind = "return"
        /\ last.out.val = Some(DictGet(PARTY_NICKNAMES, Lower(Val(last.nickname))))
        /\ ~last.out.fuzzy
        /\ ~Warned

\* C5: an empty or all-whitespace nickname fails with PartyNicknameEmpty for
\* every setting of the flags, and find_party raises the same exception.
C5_BlankIsEmpty ==
    (IsString /\ \A i \in 1..Len(Val(last.nickname)) : IsSpace(Val(last.nickname)[i])) =>
        (last.out.kind = "PartyNicknameEmpty" /\ last.kind = "PartyNicknameEmpty")

\* C5 witness: find_party was called with a blank nickname after an earlier call
\* and raised PartyNicknameEmpty.
C5_Witness ==
    /\ last.op = "find_party"
    /\ last.nickname = Some(sBlank)
    /\ last.kind = "PartyNicknameEmpty"
    /\ ncalls = 2

\* C6: the null nickname resolves to None when exception_on_null_value is false
\* and fails with PartyNicknameEmpty when it is true, for every setting of the
\* other flags; the table is not consulted and no warning is emitted.
C6_NullValue ==
    (Resolved /\ last.nickname = None) =>
        /\ IF last.args.exception_on_null_value
           THEN last.out.kind = "PartyNicknameEmpty"
           ELSE last.out.kind = "return" /\ last.out.val = None
        /\ ~last.out.consulted
        /\ ~last.out.fuzzy
        /\ ~Warned

\* C6 witness: the null nickname was refused under exception_on_null_value after
\* it had been resolved to None without it.
C6_Witness ==
    /\ last.op = "official"
    /\ last.nickname = None
    /\ last.args.exception_on_null_value
    /\ last.out.kind = "PartyNicknameEmpty"
    /\ \E i \in 1..Len(cache) : cache[i][1][1] = None /\ cache[i][2] = None

\* The keys of the table most similar to the normalised nickname n.
ClosestKeys(n) ==
    {i \in 1..Len(PARTY_NICKNAMES) :
        \A j \in 1..Len(PARTY_NICKNAMES) :
            Score(full_process(n), PARTY_NICKNAMES[j][1])
                <= Score(full_process(n), PARTY_NICKNAMES[i][1])}

\* The last call resolved a non-blank nickname that is not on file, with
\* allow_fuzzy_match true.
FuzzyCase ==
    /\ IsString
    /\ last.args.allow_fuzzy_match
    /\ Len(Norm) > 0
    /\ ~DictHas(PARTY_NICKNAMES, Norm)

\* The last call returned the official name of a key closest to the nickname.
ReturnedClosest ==
    /\ last.out.kind = "return"
    /\ \E i \in ClosestKeys(Norm) : last.out.val = Some(PARTY_NICKNAMES[i][2])

\* The last call emitted exactly the rename event of its nickname and result.
WarnedRename ==
    last.out.warn = <<[nickname |-> Norm, proper_name |-> Val(last.out.val)]>>

\* C7 as stated: a non-blank nickname not on file, resolved with allowFuzzy true,
\* returns the official name of a most similar key and emits the rename event
\* if and only if warnOnFuzzy is true.
C7_Original ==
    FuzzyCase =>
        /\ ReturnedClosest
        /\ IF last.args.warn_on_fuzzy_match THEN WarnedRename ELSE ~Warned

\* C7 amended: a non-blank nickname not on file, resolved with allowFuzzy true,
\* returns the official name of a most similar key (never PartyNameNotFound); a
\* call that is not answered from the cache emits the rename event of the
\* normalised nickname and the result if and only if warnOnFuzzy is true, and a
\* call answered from the cache emits none.
C7_FuzzyResolves ==
    FuzzyCase =>
        /\ ReturnedClosest
        /\ IF last.args.warn_on_fuzzy_match /\ ~last.out.hit THEN WarnedRename ELSE ~Warned

\* C7 witness: a nickname not on file was resolved by similarity with a warning.
C7_Witness ==
    /\ FuzzyCase
    /\ last.nickname = Some(sTori)
    /\ last.out.val = Some(sCon)
    /\ last.out.fuzzy
    /\ WarnedRename

\* C8: every call returns the outcome (official name, None or exception) that the
\* un-memoized function returns for the same arguments.
C8_MemoizedEqualsFresh ==
    Resolved =>
        \E fresh \in {official_body(last.nickname, last.args.allow_fuzzy_match,
                                    last.args.warn_on_fuzzy_match,
                                    last.args.exception_on_null_value)} :
            last.out.kind = fresh.kind /\ last.out.val = fresh.val

\* C8 witness: a call was answered from the cache with an official name.
C8_Witness ==
    /\ Resolved
    /\ last.out.hit
    /\ last.out.val = Some(sCon)
    /\ last.nickname = Some(sTori)

(***************************************************************************)
(* The name resolver, called from several threads                          *)
(***************************************************************************)

\* The threads of one run.
NThreads == 2

\* What the threads ask for: a nickname resolved by similarity, one on file and
\* a blank one, by the bare call or with the warning switched off.
ThreadNicknames == {Some(sTori), Some(sToryCap), Some(sBlank)}
ThreadCalls == {Call(<<>>, <<>>), Call(<<TRUE, FALSE, FALSE>>, <<>>)}

\* A thread about to call names.official(nickname, ...).
Caller(nickname, call) ==
    [pc |-> "call", nickname |-> nickname, call |-> call,
     kind |-> "pending", val |-> None, warned |-> FALSE]

\* The import as in Init; each thread's call is drawn here.
InitConc ==
    /\ \E rows \in TableInputs :
          /\ PARTY_NICKNAMES = read_nicknames_file(rows)[1]
          /\ PARTY_SHORTNAMES = read_nicknames_file(rows)[2]
          /\ PARTY_COLORS = ColorData
    /\ COUNTS = <<>>
    /\ importing = [phase |-> "loading", lines |-> ResolverData]
    /\ cache = <<>>
    /\ log = <<>>
    /\ last = Idle
    /\ ncalls = 0
    /\ threads \in [1..NThreads ->
                      {Caller(nickname, call) :
                          nickname \in ThreadNicknames, call \in ThreadCalls}]

\* The lru_cache wrapper, entered: a key in the cache answers the call; any other
\* key goes on to the function, and the cache is left as it is meanwhile.
Lookup(t) ==
    /\ importing.phase = "ready"
    /\ threads[t].pc = "call"
    /\ \E key \in {make_key(threads[t].nickname, threads[t].call)} :
          IF CacheHas(cache, key)
          THEN /\ cache' = CacheTouch(cache, key)
               /\ threads' = [threads EXCEPT ![t].pc = "done", ![t].kind = "return",
                                             ![t].val = CacheGet(cache, key)]
          ELSE /\ cache' = cache
               /\ threads' = [threads EXCEPT ![t].pc = "body"]
    /\ UNCHANGED <<PARTY_NICKNAMES, PARTY_SHORTNAMES, PARTY_COLORS, COUNTS, importing, log, last, ncalls>>

\* The thread after the function's body answered with out.
Answered(t, out) ==
    /\ log' = log \o Emitted(out, threads[t].nickname, threads[t].call)
    /\ threads' = [threads EXCEPT ![t].pc = IF out.kind = "return" THEN "store" ELSE "done",
                                  ![t].kind = out.kind,
                                  ![t].val = out.val,
                                  ![t].warned = Len(out.warn) > 0]

\* names.official's body (lines 70-94), run by thread t after its miss.
Body(t) ==
    /\ threads[t].pc = "body"
    /\ \E out \in {official_body(threads[t].nickname,
                                 Args(threads[t].call).allow_fuzzy_match,
                                 Args(threads[t].call).warn_on_fuzzy_match,
                                 Args(threads[t].call).exception_on_null_value)} :
          Answered(t, out)
    /\ UNCHANGED <<PARTY_NICKNAMES, PARTY_SHORTNAMES, PARTY_COLORS, COUNTS, importing, cache, last, ncalls>>

\* The lru_cache wrapper, after the function returned: the result is stored
\* unless the key was stored meanwhile.
Store(t) ==
    /\ threads[t].pc = "store"
    /\ cache' = CacheInsert(cache, make_key(threads[t].nickname, threads[t].call),
                            threads[t].val)
    /\ threads' = [threads EXCEPT ![t].pc = "done"]
    /\ UNCHANGED <<PARTY_NICKNAMES, PARTY_SHORTNAMES, PARTY_COLORS, COUNTS, importing, log, last, ncalls>>

Step(t) == Lookup(t) \/ Body(t) \/ Store(t)

NextConc == Ingest \/ \E t \in 1..NThreads : Step(t)

SpecConc == InitConc /\ [][NextConc]_vars

\* Threads t and u made the same call.
SameKey(t, u) ==
    /\ threads[t].nickname = threads[u].nickname
    /\ threads[t].call = threads[u].call

\* C9 as stated: when several callers resolve the same key concurrently, each
\* receives the same official name and the rename warning is emitted only once.
C9_ConcurrentWarnOnce ==
    \A t \in DOMAIN threads, u \in DOMAIN threads :
        (threads[t].pc = "done" /\ threads[u].pc = "done" /\ SameKey(t, u)) =>
            /\ threads[t].kind = threads[u].kind
            /\ threads[t].val = threads[u].val
            /\ Cardinality({v \in DOMAIN threads : SameKey(t, v) /\ threads[v].warned}) <= 1

(***************************************************************************)
(* elections.py: seats                                                     *)
(***************************************************************************)

\* Location.__eq__ and __hash__: two Locations are one when their reprs are equal.
LocEq(a, b) == Repr(a) = Repr(b)

\* elections.py lines 88-89: the dates of the vote counts.
DATES == {COUNTS[i].date : i \in 1..Len(COUNTS)}

\* elections.py line 92: max(DATES)
MOST_RECENT_ELECTION_DATE == CHOOSE d \in DATES : \A e \in DATES : e <= d

\* The counts at the filter's locations, whatever their date (a slip).
counts_for_this_date_AnyDate(date, location_filter) ==
    SelectSeq(COUNTS, LAMBDA count : Ge(location_filter, count.location))

\* seats, lines 116-118: the counts at the filter's locations on the date.
counts_for_this_date(date, location_filter) ==
    SelectSeq(COUNTS, LAMBDA count : Ge(location_filter, count.location)
                                     /\ count.date = date)

\* seats, line 119: the set of the counts' locations, one of each, here in the
\* order of their first counts.
locations(counts) ==
    Apply(SelectSeq([k \in 1..Len(counts) |-> k],
                    LAMBDA i : \A j \in 1..(i - 1) :
                                   ~LocEq(counts[j].location, counts[i].location)),
          LAMBDA firsts : [k \in 1..Len(firsts) |-> counts[firsts[k]].location])

\* seats, lines 122-124: party -> votes over the counts at loc; a later count of
\* a party replaces an earlier one.
RECURSIVE party_counts(_, _, _)
party_counts(d, counts, loc) ==
    IF Len(counts) = 0 THEN d
    ELSE party_counts(IF LocEq(Head(counts).location, loc)
                      THEN DictSet(d, Head(counts).party, Head(counts).votes)
                      ELSE d,
                      Tail(counts), loc)

\* seats, lines 125-126: max(party_counts.keys(), key=votes), the first party
\* with the most votes.
winner(counter) ==
    Apply([i \in 1..Len(counter) |-> counter[i][2]],
          LAMBDA votes : counter[FirstMax(votes)][1])

\* seats, lines 120-128: the (location, winner) pairs, the locations taken in the
\* order order_, a permutation of their indices.
constituency_winners(counts, locs, order_) ==
    [i \in 1..Len(locs) |->
        <<locs[order_[i]], winner(party_counts(<<>>, counts, locs[order_[i]]))>>]

\* seats over the counts already selected: every list the call can return; the
\* set of locations is iterated in an order the hash decides.
SeatsOf(counts) ==
    {constituency_winners(counts, locs, order_) :
        locs \in {locations(counts)},
        order_ \in Permutations(1..Len(locations(counts)))}

\* elections.seats(date, location_filter); None stands for an argument left out.
seats(date, location_filter) ==
    Apply(counts_for_this_date(
              IF date = None THEN MOST_RECENT_ELECTION_DATE ELSE Val(date),
              IF location_filter = None
              THEN Location(None, None, None, None, None, None)
              ELSE Val(location_filter)),
          SeatsOf)

\* The characters of the model's strings, in code point order within each run.
Punctuation == <<<<" ", 32>>, <<"*", 42>>, <<"-", 45>>, <<"/", 47>>, <<"|", 124>>>>
Digits == <<"0", "1", "2", "3", "4", "5", "6", "7", "8", "9">>
UpperCase ==
    <<"A", "B", "C", "D", "E", "F", "G", "H", "I", "J", "K", "L", "M",
      "N", "O", "P", "Q", "R", "S", "T", "U", "V", "W", "X", "Y", "Z">>
LowerCase ==
    <<"a", "b", "c", "d", "e", "f", "g", "h", "i", "j", "k", "l", "m",
      "n", "o", "p", "q", "r", "s", "t", "u", "v", "w", "x", "y", "z">>

\* The place of c in a run of characters, 0 when it is not in it.
IndexIn(run, c) ==
    IF \E i \in 1..Len(run) : run[i] = c
    THEN CHOOSE i \in 1..Len(run) : run[i] = c
    ELSE 0

\* ord(c)
CodePoint(c) ==
    IF IndexIn(Digits, c) > 0 THEN 47 + IndexIn(Digits, c)
    ELSE IF IndexIn(UpperCase, c) > 0 THEN 64 + IndexIn(UpperCase, c)
    ELSE IF IndexIn(LowerCase, c) > 0 THEN 96 + IndexIn(LowerCase, c)
    ELSE Punctuation[CHOOSE i \in 1..Len(Punctuation) : Punctuation[i][1] = c][2]

\* str.__lt__: a < b, by code points, a proper prefix first.
StrLess(a, b) ==
    \E k \in 1..Len(b) :
        /\ \A i \in 1..(k - 1) : i <= Len(a) /\ a[i] = b[i]
        /\ k > Len(a) \/ CodePoint(a[k]) < CodePoint(b[k])

\* The strings in descending order (a slip).
RECURSIVE sorted_Descending(_)
sorted_Descending(strings) ==
    IF strings = {} THEN <<>>
    ELSE Apply(CHOOSE x \in strings : \A y \in strings : x = y \/ StrLess(y, x),
               LAMBDA first : <<first>> \o sorted_Descending(strings \ {first}))

\* sorted(list(parties)) for a set of strings: ascending.
RECURSIVE sorted(_)
sorted(strings) ==
    IF strings = {} THEN <<>>
    ELSE Apply(CHOOSE x \in strings : \A y \in strings : x = y \/ StrLess(x, y),
               LAMBDA first : <<first>> \o sorted(strings \ {first}))

\* The parties of the counts of the date, whatever the filter (a slip).
parties_AnyLocation(date, location_filter) ==
    {COUNTS[i].party : i \in {k \in 1..Len(COUNTS) : date = COUNTS[k].date}}

\* ran, lines 150-156: the parties of the counts of the date, at the filter's
\* locations when a filter is given.
parties(date, location_filter) ==
    {COUNTS[i].party :
        i \in {k \in 1..Len(COUNTS) :
                  /\ location_filter # None => Ge(Val(location_filter), COUNTS[k].location)
                  /\ date = COUNTS[k].date}}

\* elections.ran(date, location_filter); None stands for an argument left out.
ran(date, location_filter) ==
    sorted(parties(IF date = None THEN MOST_RECENT_ELECTION_DATE ELSE Val(date),
                   location_filter))

(***************************************************************************)
(* The election queries                                                    *)
(***************************************************************************)

\* The most lines of the vote file.
MaxLines == 3

sLocA == <<"x", "|", "A", "|", "b", "|", "b", "|", "A", "|", "7">>
sLoca == <<"x", "|", "a", "|", "b", "|", "b", "|", "A", "|", "7">>
sLocA8 == <<"x", "|", "A", "|", "b", "|", "b", "|", "A", "|", "8">>
sLocB == <<"y", "|", "B", "|", "b", "|", "b", "|", "W", "|", "9">>
sSpeaker == <<"S", "p", "e", "a", "k", "e", "r">>
sW == <<"W">>
sZ == <<"z">>

\* The lines of the vote files: two parties at one location, the same
\* constituency in another case and with another electorate, another
\* constituency, another date, a second count of a party at a location, and the
\* Speaker.
VoteLineInputs ==
    {Line(sLocA, 1, Some(sLab), 5), Line(sLocA, 1, Some(sCon), 3),
     Line(sLoca, 1, Some(sCon), 5), Line(sLocA8, 1, Some(sLab), 3),
     Line(sLocB, 1, Some(sLab), 3), Line(sLocA, 2, Some(sCon), 5),
     Line(sLocA, 1, Some(sLab), 2), Line(sLocB, 1, Some(sSpeaker), 4)}

\* The vote files: one to MaxLines lines.
VoteFiles == UNION {[1..n -> VoteLineInputs] : n \in 1..MaxLines}

\* The dates asked for: the default, the dates on file and one that is not.
DateInputs == {None, Some(1), Some(2), Some(3)}

\* The filters asked for: none, the Location with no field set, a constituency,
\* a country, a constituency not on file, an electorate, and the constituency
\* with the electorate.
FilterInputs ==
    {None,
     Some(Location(None, None, None, None, None, None)),
     Some(Location(None, Some(sa), None, None, None, None)),
     Some(Location(None, None, None, None, Some(sW), None)),
     Some(Location(None, Some(sZ), None, None, None, None)),
     Some(Location(None, None, None, None, None, Some(7))),
     Some(Location(None, Some(sa), None, None, None, Some(7)))}

\* The nickname file behind the election queries: the clean one and the Speaker.
ElectionRows == CleanRows \o <<<<sSpeaker, sSpeaker>>>>

\* The package as its import begins, the vote file drawn here.
InitSeats ==
    /\ PARTY_NICKNAMES = read_nicknames_file(ElectionRows)[1]
    /\ PARTY_SHORTNAMES = read_nicknames_file(ElectionRows)[2]
    /\ PARTY_COLORS = ColorData
    /\ COUNTS = <<>>
    /\ \E lines \in VoteFiles : importing = [phase |-> "loading", lines |-> lines]
    /\ cache = <<>>
    /\ log = <<>>
    /\ last = Idle
    /\ ncalls = 0
    /\ threads = <<>>

\* What a call of seats that returned result leaves behind.
SeatsCalled(date, location_filter, result) ==
    last' = [op |-> "seats", date |-> date, location_filter |-> location_filter,
             result |-> result]

\* elections.seats(date, location_filter): one query of each run, after the import.
CallSeats ==
    /\ importing.phase = "ready"
    /\ last.op = "ingest"
    /\ \E date \in DateInputs, location_filter \in FilterInputs :
          \E result \in seats(date, location_filter) :
              SeatsCalled(date, location_filter, result)
    /\ UNCHANGED <<PARTY_NICKNAMES, PARTY_SHORTNAMES, PARTY_COLORS, COUNTS, importing, cache, log, ncalls, threads>>

\* elections.ran(date, location_filter): one query of each run, after the import.
CallRan ==
    /\ importing.phase = "ready"
    /\ last.op = "ingest"
    /\ \E date \in DateInputs, location_filter \in FilterInputs :
          last' = [op |-> "ran", date |-> date, location_filter |-> location_filter,
                   result |-> ran(date, location_filter)]
    /\ UNCHANGED <<PARTY_NICKNAMES, PARTY_SHORTNAMES, PARTY_COLORS, COUNTS, importing, cache, log, ncalls, threads>>

NextSeats == Ingest \/ CallSeats \/ CallRan

SpecSeats == InitSeats /\ [][NextSeats]_vars

\* The date the last query was about.
QueryDate == IF last.date = None THEN MOST_RECENT_ELECTION_DATE ELSE Val(last.date)

\* The vote counts of the query's date that the query's filter matches.
Matching ==
    {i \in 1..Len(COUNTS) :
        /\ COUNTS[i].date = QueryDate
        /\ last.location_filter # None =>
               Ge(Val(last.location_filter), COUNTS[i].location)}

\* C10: seats returns exactly one (location, party) pair for each distinct
\* location among the counts of the date that the filter matches: none is
\* missing, none appears twice, and none without a matching count appears; with
\* no filter every location of the date appears exactly once.
C10_SeatsOnePerLocation ==
    last.op = "seats" =>
        /\ \A i \in Matching :
               Cardinality({k \in 1..Len(last.result) :
                               LocEq(last.result[k][1], COUNTS[i].location)}) = 1
        /\ \A k \in 1..Len(last.result) :
               \E i \in Matching : last.result[k][1] = COUNTS[i].location

\* C10 witness: a filtered query over two matching counts at one location returned
\* one pair and left the location of a count the filter does not match out.
C10_Witness ==
    /\ last.op = "seats"
    /\ last.location_filter = Some(Location(None, Some(sa), None, None, None, None))
    /\ Cardinality(Matching) = 2
    /\ Len(last.result) = 1
    /\ \E i \in 1..Len(COUNTS) : i \notin Matching /\ COUNTS[i].date = QueryDate

\* The vote counts of the query's date at location loc.
CountsAt(loc) ==
    {i \in 1..Len(COUNTS) : COUNTS[i].date = QueryDate /\ LocEq(COUNTS[i].location, loc)}

\* C11 as stated: every pair (loc, party) that seats returns names a party with a
\* count at loc on the date that is at least every count at loc on the date,
\* whether or not a party has more than one count there.
C11_WinnerHasMostVotes ==
    last.op = "seats" =>
        \A k \in 1..Len(last.result) :
            \E i \in CountsAt(last.result[k][1]) :
                /\ COUNTS[i].party = last.result[k][2]
                /\ \A j \in CountsAt(last.result[k][1]) : COUNTS[j].votes <= COUNTS[i].votes

\* C12: ran returns a strictly ascending list holding exactly the parties of the
\* counts of the date that the filter matches; when exactly one of those counts
\* is the Speaker's, the list holds "Speaker" exactly once.
C12_RanSortedDistinct ==
    last.op = "ran" =>
        /\ \A k \in 1..(Len(last.result) - 1) : StrLess(last.result[k], last.result[k + 1])
        /\ {last.result[k] : k \in 1..Len(last.result)} = {COUNTS[i].party : i \in Matching}
        /\ Cardinality({i \in Matching : COUNTS[i].party = sSpeaker}) = 1 =>
               Cardinality({k \in 1..Len(last.result) : last.result[k] = sSpeaker}) = 1

\* C12 witness: three counts match, the Speaker's read first and two of one
\* party; the list is that party, then the Speaker.
C12_Witness ==
    /\ last.op = "ran"
    /\ Cardinality(Matching) = 3
    /\ COUNTS[1].party = sSpeaker
    /\ last.result = <<sLab, sSpeaker>>

(***************************************************************************)
(* The Location comparison and canonical string: further properties        *)
(***************************************************************************)

\* C13 as stated: for every Location L, parsing the canonical string of L
\* succeeds and yields a Location equal to L.
C13_RoundTrip ==
    last.op = "roundtrip" =>
        /\ last.res.kind = "return"
        /\ LocEq(Val(last.res.loc), last.a)

\* C14 as stated: L >= L and L <= L hold for every Location L, and A <= B holds
\* exactly when B >= A holds.
C14_ReflexiveAndDual ==
    /\ (last.op \in {"ge", "le"} /\ last.a = last.b) => last.res
    /\ last.op = "le" => (last.res <=> Ge(last.b, last.a))

\* The electorates a Location is given in place of its own.
ElectorateInputs == {None, Some(0), Some(7), Some(8)}

\* C20: the result of A >= B, and of A <= B, is unchanged when the electorate of
\* A, of B or of both is replaced by any other value or by the wildcard.
C20_ElectorateIgnored ==
    \A e1 \in ElectorateInputs, e2 \in ElectorateInputs :
        /\ last.op = "ge" =>
               last.res = Ge([last.a EXCEPT !.electorate = e1],
                             [last.b EXCEPT !.electorate = e2])
        /\ last.op = "le" =>
               last.res = Le([last.a EXCEPT !.electorate = e1],
                             [last.b EXCEPT !.electorate = e2])

\* C20 witness: A <= B held between Locations with a set field in common and
\* different electorates.
C20_Witness ==
    /\ last.op = "le"
    /\ last.res
    /\ last.b.constituency = Some(sA)
    /\ last.a.constituency = Some(sa)
    /\ last.a.electorate = Some(7)
    /\ last.b.electorate = None

(***************************************************************************)
(* The ingestion of vote lines                                             *)
(***************************************************************************)

sEngland == <<"E", "n", "g", "l", "a", "n", "d">>

\* The nickname file behind the ingestion: the parties the relabelling names.
IngestRows ==
    <<<<sSNP, sSNP>>, <<sPC, sPC>>, <<sLab, sL>>,
      <<sScottishGreenParty, sGreenParty>>,
      <<sGreenPartyNorthernIreland, sGreenParty>>,
      <<sGreenPartyOfEnglandAndWales, sGreenParty>>>>

\* A record's location string in a country, "x|A|b|b|<country>|7".
RecordIn(country) ==
    <<"x", "|", "A", "|", "b", "|", "b", "|">> \o country \o <<"|", "7">>

\* The countries and the labels of the lines: the two labels that are relabelled,
\* one that is not, and the labels names.official gives no name for (read_csv
\* reads an empty cell as a missing value, a blank one as a string).
CountryInputs == {sScotland, sWales, sNorthernIreland, sEngland}
LabelInputs == {Some(sPCSNP), Some(sGreen), Some(sLab), None, Some(sBlank)}

IngestLineInputs ==
    {Line(RecordIn(country), 1, label, 5) : country \in CountryInputs, label \in LabelInputs}

\* The vote files: one line or two.
IngestFiles == UNION {[1..n -> IngestLineInputs] : n \in 1..2}

\* The package as its import begins, the vote file drawn here.
InitIngest ==
    /\ PARTY_NICKNAMES = read_nicknames_file(IngestRows)[1]
    /\ PARTY_SHORTNAMES = read_nicknames_file(IngestRows)[2]
    /\ PARTY_COLORS = ColorData
    /\ COUNTS = <<>>
    /\ \E lines \in IngestFiles : importing = [phase |-> "loading", lines |-> lines]
    /\ cache = <<>>
    /\ log = <<>>
    /\ last = Idle
    /\ ncalls = 0
    /\ threads = <<>>

NextIngest == Ingest

SpecIngest == InitIngest /\ [][NextIngest]_vars

\* The country of the line read last, as its location string has it.
LineCountry == SplitPipe(last.line[1])[5]

\* The last step read a line and handed a label to names.official.
Handed == last.op = "ingest" /\ last.label # None

\* C15: the label handed to names.official is, for "PC/SNP", "SNP" in Scotland
\* and "PC" in Wales; for "Green", "Scottish Green Party" in Scotland, "Green
\* Party Northern Ireland" in Northern Ireland and "Green Party of England and
\* Wales" in every other country; every other label is handed over unchanged.
C15_Relabelled ==
    Handed =>
        /\ (last.line[3] = Some(sPCSNP) /\ LineCountry = sScotland) =>
               Val(last.label) = Some(sSNP)
        /\ (last.line[3] = Some(sPCSNP) /\ LineCountry = sWales) =>
               Val(last.label) = Some(sPC)
        /\ (last.line[3] = Some(sGreen) /\ LineCountry = sScotland) =>
               Val(last.label) = Some(sScottishGreenParty)
        /\ (last.line[3] = Some(sGreen) /\ LineCountry = sNorthernIreland) =>
               Val(last.label) = Some(sGreenPartyNorthernIreland)
        /\ (last.line[3] = Some(sGreen) /\ LineCountry \notin {sScotland, sNorthernIreland}) =>
               Val(last.label) = Some(sGreenPartyOfEnglandAndWales)
        /\ last.line[3] \notin {Some(sPCSNP), Some(sGreen)} =>
               Val(last.label) = last.line[3]

\* C15 witness: a "PC/SNP" line of Wales was handed over as "PC", after a line
\* of another country.
C15_Witness ==
    /\ Handed
    /\ last.line[3] = Some(sPCSNP)
    /\ LineCountry = sWales
    /\ Val(last.label) = Some(sPC)
    /\ last.kind = "return"
    /\ Len(COUNTS) = 2

\* The label of the line read last is missing, empty or all whitespace.
NoLabel ==
    \/ last.line[3] = None
    \/ \A i \in 1..Len(Val(last.line[3])) : IsSpace(Val(last.line[3])[i])

\* C16 as stated: a line whose label is missing, empty or all whitespace fails
\* with DataLineUnreadable, no other exception, and gives no VoteTotal.
C16_UnreadableLine ==
    (last.op = "ingest" /\ NoLabel) =>
        (last.kind = "DataLineUnreadable" /\ last.vote = None)

\* C17 as stated: the party_contemporary_styling of the VoteTotal is the label
\* exactly as the line records it, and party is the resolved official name.
C17_StylingAsRecorded ==
    (last.op = "ingest" /\ last.kind = "return") =>
        /\ Val(last.vote).party_contemporary_styling = Val(last.line[3])
        /\ \E i \in 1..Len(PARTY_NICKNAMES) :
               PARTY_NICKNAMES[i][2] = Val(last.vote).party

(***************************************************************************)
(* names.short                                                             *)
(***************************************************************************)

\* The last step was a call of names.short.
ShortCalled == last.op = "short"

\* C18: names.short returns None for None; for any other input it returns the
\* short name filed under the lower-cased input, so inputs that differ only in
\* letter case give the same result, and it fails with PartyNameNotFound, with
\* no value, when the lower-cased input is not a key of the table.
C18_ShortByLowerCase ==
    ShortCalled =>
        /\ last.official_name = None => (last.kind = "return" /\ last.val = None)
        /\ last.official_name # None =>
              /\ DictHas(PARTY_SHORTNAMES, Lower(Val(last.official_name))) =>
                    /\ last.kind = "return"
                    /\ last.val = Some(DictGet(PARTY_SHORTNAMES, Lower(Val(last.official_name))))
              /\ ~DictHas(PARTY_SHORTNAMES, Lower(Val(last.official_name))) =>
                    (last.kind = "PartyNameNotFound" /\ last.val = None)
              /\ \A other \in ShortInputs \ {None} :
                    Lower(Val(other)) = Lower(Val(last.official_name)) =>
                        (short(other).kind = last.kind /\ short(other).val = last.val)

\* C18 witness: names.short("LAB") returned the short name filed under "lab".
C18_Witness ==
    /\ ShortCalled
    /\ last.official_name = Some(sLAB)
    /\ last.kind = "return"
    /\ last.val = Some(sL)
    /\ ~DictHas(PARTY_SHORTNAMES, sLAB)

(***************************************************************************)
(* colors.by_official_party_name                                           *)
(***************************************************************************)

\* The rows of the colour file: the merged Green Party twice, with two colours,
\* its name in lower case, and another party.
ColorRowInputs ==
    {<<sGreenParty, sHexGreen>>, <<sGreenParty, sHexOther>>,
     <<sGreenPartyKey, sHexLower>>, <<sLab, sHexLab>>}

\* The colour files: one row or two.
ColorFiles == UNION {[1..n -> ColorRowInputs] : n \in 1..2}

\* The names asked for: None, the merged Green Party as filed and in lower case,
\* another party, the empty string and a name in no file.
ColorInputs ==
    {None, Some(sGreenParty), Some(sGreenPartyKey), Some(sLab), Some(sEmpty), Some(sCon)}

\* The package as its import begins, the colour file drawn here.
InitColor ==
    /\ PARTY_NICKNAMES = read_nicknames_file(CleanRows)[1]
    /\ PARTY_SHORTNAMES = read_nicknames_file(CleanRows)[2]
    /\ \E rows \in ColorFiles : PARTY_COLORS = read_csv_to_dict(rows)
    /\ COUNTS = <<>>
    /\ importing = [phase |-> "loading", lines |-> ResolverData]
    /\ cache = <<>>
    /\ log = <<>>
    /\ last = Idle
    /\ ncalls = 0
    /\ threads = <<>>

\* colors.by_official_party_name(party_name), a whole call
CallColor ==
    /\ importing.phase = "ready"
    /\ ncalls < MaxCalls
    /\ \E party_name \in ColorInputs :
          \E res \in {by_official_party_name(party_name)} :
              last' = [op |-> "color", party_name |-> party_name, kind |-> res.kind,
                       val |-> res.val, warnings |-> res.warnings]
    /\ ncalls' = ncalls + 1
    /\ UNCHANGED <<PARTY_NICKNAMES, PARTY_SHORTNAMES, PARTY_COLORS, COUNTS, importing, cache, log, threads>>

NextColor == Ingest \/ CallColor

SpecColor == InitColor /\ [][NextColor]_vars

\* The last step was a colour lookup.
ColorCalled == last.op = "color"

\* C19: by_official_party_name returns None, without a warning, for None; for a
\* name that is a key of the colour table, compared case-sensitively, it returns
\* the colour on file, and it warns if and only if the name is exactly "Green
\* Party"; every other input, the empty string included, fails with
\* NoColorForThisParty.
C19_ColorLookup ==
    ColorCalled =>
        /\ last.party_name = None =>
              (last.kind = "return" /\ last.val = None /\ last.warnings = <<>>)
        /\ (last.party_name # None /\ DictHas(PARTY_COLORS, Val(last.party_name))) =>
              /\ last.kind = "return"
              /\ last.val = Some(DictGet(PARTY_COLORS, Val(last.party_name)))
              /\ (last.warnings # <<>>) <=> (Val(last.party_name) = sGreenParty)
        /\ (last.party_name # None /\ ~DictHas(PARTY_COLORS, Val(last.party_name))) =>
              (last.kind = "NoColorForThisParty" /\ last.val = None /\ last.warnings = <<>>)
        /\ last.party_name = Some(sEmpty) => last.kind = "NoColorForThisParty"

\* C19 witness: "Green Party" and "green party" are both on file, and the lookup
\* of "Green Party" returned its colour with the warning.
C19_Witness ==
    /\ ColorCalled
    /\ last.party_name = Some(sGreenParty)
    /\ DictHas(PARTY_COLORS, sGreenPartyKey)
    /\ last.kind = "return"
    /\ last.val = Some(DictGet(PARTY_COLORS, sGreenParty))
    /\ last.warnings # <<>>

(***************************************************************************)
(* The election queries: relations between queries                         *)
(***************************************************************************)

\* The most lines of the vote file in the runs that compare two queries.
MaxCompared == 2

\* The vote files of those runs: one to MaxCompared lines.
ComparedFiles == UNION {[1..n -> VoteLineInputs] : n \in 1..MaxCompared}

\* The package as its import begins, the vote file drawn here.
InitCompare ==
    /\ PARTY_NICKNAMES = read_nicknames_file(ElectionRows)[1]
    /\ PARTY_SHORTNAMES = read_nicknames_file(ElectionRows)[2]
    /\ PARTY_COLORS = ColorData
    /\ COUNTS = <<>>
    /\ \E lines \in ComparedFiles : importing = [phase |-> "loading", lines |-> lines]
    /\ cache = <<>>
    /\ log = <<>>
    /\ last = Idle
    /\ ncalls = 0
    /\ threads = <<>>

NextCompare == Ingest \/ CallSeats \/ CallRan

SpecCompare == InitCompare /\ [][NextCompare]_vars

\* The Location a filter argument stands for: Location() when it is left out.
FilterOf(location_filter) ==
    IF location_filter = None THEN Location(None, None, None, None, None, None)
    ELSE Val(location_filter)

\* Filter f2 has the value of filter f1 in every field that f1 sets.
Narrows(f1, f2) ==
    \A field \in AllFields :
        FilterOf(f1)[field] # None => FilterOf(f2)[field] = FilterOf(f1)[field]

\* The (location, party) pairs of a list that seats returns.
PairsOf(result) == {result[k] : k \in 1..Len(result)}

\* The parties of a list that ran returns.
PartiesOf(result) == {result[k] : k \in 1..Len(result)}

\* C21: narrowing a filter never adds results: when filter F2 has the value of
\* the query's filter F1 in every field F1 sets, ran(date, F2) is a subset of
\* ran(date, F1) and the pairs of seats(date, F2) are among those of
\* seats(date, F1); and a query with no filter gives what the same query with
\* the Location with no field set gives.
C21_NarrowingNeverAdds ==
    /\ last.op = "ran" =>
          /\ \A f2 \in FilterInputs :
                Narrows(last.location_filter, f2) =>
                    PartiesOf(ran(last.date, f2)) \subseteq PartiesOf(last.result)
          /\ FilterOf(last.location_filter) = FilterOf(None) =>
                /\ ran(last.date, None) = last.result
                /\ ran(last.date, Some(FilterOf(None))) = last.result
    /\ last.op = "seats" =>
          /\ \A f2 \in FilterInputs :
                Narrows(last.location_filter, f2) =>
                    \A narrowed \in seats(last.date, f2) :
                        PairsOf(narrowed) \subseteq PairsOf(last.result)
          /\ FilterOf(last.location_filter) = FilterOf(None) =>
                /\ last.result \in seats(last.date, None)
                /\ last.result \in seats(last.date, Some(FilterOf(None)))

\* C21 witness: a query by electorate returned two pairs, and the same query
\* narrowed to a constituency returns one of them only.
C21_Witness ==
    /\ last.op = "seats"
    /\ last.location_filter = Some(Location(None, None, None, None, None, Some(7)))
    /\ Len(last.result) = 2
    /\ \E narrowed \in seats(last.date,
                             Some(Location(None, Some(sa), None, None, None, Some(7)))) :
          /\ Len(narrowed) = 1
          /\ PairsOf(narrowed) \subseteq PairsOf(last.result)

\* The winning parties of a list that seats returns.
WinnersOf(result) == {result[k][2] : k \in 1..Len(result)}

\* C22: for every date and filter, every winning party that seats returns is in
\* the list that ran returns for the same date and filter, and seats returns the
\* empty list exactly when ran does.
C22_WinnersRan ==
    /\ last.op = "seats" =>
          /\ WinnersOf(last.result)
                \subseteq PartiesOf(ran(last.date, last.location_filter))
          /\ (last.result = <<>>) <=> (ran(last.date, last.location_filter) = <<>>)
    /\ last.op = "ran" =>
          \A result \in seats(last.date, last.location_filter) :
              /\ WinnersOf(result) \subseteq PartiesOf(last.result)
              /\ (result = <<>>) <=> (last.result = <<>>)

\* C22 witness: a filtered query returned two pairs with two winners, and ran
\* lists a third party, which won nowhere.
C22_Witness ==
    /\ last.op = "seats"
    /\ last.location_filter # None
    /\ Len(last.result) = 2
    /\ Cardinality(WinnersOf(last.result)) = 2
    /\ Len(ran(last.date, last.location_filter)) = 3

(***************************************************************************)
(* find_party and the short names                                          *)
(***************************************************************************)

\* The last step was find_party(nickname, return_short_name=True) with fuzzy
\* matching allowed, for a nickname that is neither null nor blank.
FindShortCalled ==
    /\ last.op = "find_party"
    /\ last.return_short_name
    /\ last.call = FindPartyCall(TRUE)
    /\ last.nickname # None
    /\ Strip(Val(last.nickname)) # <<>>

\* C23 as stated: the official name that names.official returns has an entry in
\* the short-name table, so find_party with return_short_name=True and fuzzy
\* matching returns a short name for every non-blank nickname and never fails
\* with PartyNameNotFound.
C23_ShortForEveryOfficial ==
    FindShortCalled =>
        /\ last.out.kind = "return"
        /\ DictHas(PARTY_SHORTNAMES, Lower(Val(last.out.val)))
        /\ last.kind = "return"
        /\ last.val # None

====
